---------------------------- MODULE Spec2Model ----------------------------
(***************************************************************************)
(* A model of cover_agent/AICaller.py: the AICaller class, its constructor *)
(* (__init__), call_model and count_tokens.                                *)
(*                                                                         *)
(* Text is a sequence of one-character strings, so that str.strip() and    *)
(* string concatenation are computed and not assumed.  The remote stream   *)
(* handed back by chat.completions.create is a finite sequence of events:  *)
(* chunks of the shapes line 56 distinguishes, and a raise of the          *)
(* iterator.  The tokenizer (tiktoken, a library) is a small pair-merging  *)
(* encoder that rejects a special token, as tiktoken's encode does.        *)
(* Events and stdout lines are tuples, read through accessors.             *)
(*                                                                         *)
(* Spec is one caller from construction on; SpecConc is several threads on *)
(* one constructed instance.  The errors of the stream are Exception       *)
(* subclasses, the ones the except clause of line 65 catches.              *)
(***************************************************************************)
EXTENDS Naturals, Sequences, FiniteSets

(* ------------------------------ bounds -------------------------------- *)
\* Longest stream the remote delivers to one sequential call_model.
MaxChunks == 3
\* Longest text handed to count_tokens.
MaxTextLen == 2
\* Number of threads that share one instance in the concurrent specification.
NumThreads == 2

(* ---------------------------- program constants ----------------------- *)
\* Default of call_model's max_tokens parameter.
DefaultMaxTokens == 4096
\* temperature=0 of the request.
Temperature == 0

(* ------------------------------ values -------------------------------- *)
Threads == 1 .. NumThreads
\* The one caller of the sequential specification.
SeqThreads == {1}

\* Python's None, as the value of a string-valued field or variable.
None == "<None>"
\* A field that no assignment has reached yet.
Unset == "<unset>"

\* What os.getenv("OPENAI_API_KEY") can return: None, "", a key.
EnvValues == {None, "", "sk-key"}
Models == {"gpt-4", "gpt-3.5-turbo"}
Prompts == {"p1", "p2"}
ConcPrompts == {"p1"}

Whitespace == {" "}

\* Truthiness of an optional string, as `not self.api_key` tests it.
IsFalsyOnlyNone(x) == x = None
IsFalsy(x) == x = None \/ x = ""

(* ------------------------------ str.strip ----------------------------- *)
RECURSIVE LStrip(_)
LStrip(s) ==
    IF s = <<>> THEN <<>>
    ELSE IF Head(s) \in Whitespace THEN LStrip(Tail(s)) ELSE s

RECURSIVE RStrip(_)
RStrip(s) ==
    IF s = <<>> THEN <<>>
    ELSE IF s[Len(s)] \in Whitespace THEN RStrip(SubSeq(s, 1, Len(s) - 1)) ELSE s

\* A strip that forgets the leading side.
StripRightOnly(s) == RStrip(s)
\* full_text.strip()
Strip(s) == RStrip(LStrip(s))

(* --------------------------- the remote stream ------------------------ *)
\* An event of the stream, as a tuple: a chunk as line 56 reads it, with its
\* choices (0 or 1 of them), choices[0].delta (present or None) and
\* delta.content (None, "" or text); or a raise of the iterator in place of a
\* chunk.
Chunk(nchoices, hasDelta, hasContent, content) ==
    <<"chunk", nchoices, hasDelta, hasContent, content, "">>
ContentChunk(f) == Chunk(1, TRUE, TRUE, f)
NoDeltaChunk == Chunk(1, FALSE, FALSE, <<>>)
NoneContentChunk == Chunk(1, TRUE, FALSE, <<>>)
EmptyContentChunk == Chunk(1, TRUE, TRUE, <<>>)
NoChoicesChunk == Chunk(0, FALSE, FALSE, <<>>)
RaiseEvent(e) == <<"raise", 0, FALSE, FALSE, <<>>, e>>
EventKind(ev) == ev[1]
ChoicesOf(ev) == ev[2]
DeltaOf(ev) == ev[3]
HasContentOf(ev) == ev[4]
ContentOf(ev) == ev[5]
RaisedErrorOf(ev) == ev[6]

StreamErrors == {"APIConnectionError"}
CreateErrors == {"AuthenticationError", "BadRequestError"}
IndexError == "IndexError"

Fragments == {<<"a">>, <<" ">>}
Events ==
    {ContentChunk(f) : f \in Fragments}
        \cup {NoDeltaChunk, NoneContentChunk, EmptyContentChunk, NoChoicesChunk}
        \cup {RaiseEvent(e) : e \in StreamErrors}
Streams == UNION {[1 .. n -> Events] : n \in 0 .. MaxChunks}

\* The streams of the concurrent specification: two that differ in every
\* fragment, one of them failing in the middle.
ConcStreams ==
    { <<ContentChunk(<<"a">>), ContentChunk(<<"a">>)>>,
      <<ContentChunk(<<" ">>), ContentChunk(<<"b">>),
        RaiseEvent("APIConnectionError"), ContentChunk(<<"b">>)>> }

\* The error that consuming event ev raises inside the try of line 54, or ""
\* when it raises none: the iterator's own error, or the IndexError of
\* chunk.choices[0] on a chunk without choices.
ErrorOf(ev) ==
    IF EventKind(ev) = "raise" THEN RaisedErrorOf(ev)
    ELSE IF ChoicesOf(ev) = 0 THEN IndexError
    ELSE ""

\* The condition of line 56: delta is truthy and delta.content is truthy.
CarriesContent(ev) ==
    /\ EventKind(ev) = "chunk"
    /\ ChoicesOf(ev) > 0
    /\ DeltaOf(ev)
    /\ HasContentOf(ev)
    /\ ContentOf(ev) # <<>>

(* ------------------------------ tokenizer ----------------------------- *)
\* tiktoken.get_encoding(name): a table of pair merges and the special
\* tokens that encode() refuses in ordinary text.
GetEncodingByName(name) ==
    [name |-> name, merges |-> {<<"a", "b">>}, special |-> {"S", "E"}]
EncodingName == "cl100k_base"
NoEncoding == [name |-> Unset, merges |-> {}, special |-> {}]
EncodingLoadErrors == {"unknown encoding"}

TextChars == {"a", "b", "S", "E"}
Texts == UNION {[1 .. n -> TextChars] : n \in 0 .. MaxTextLen}
\* The texts of the concurrent specification: one or two tokens, or refused.
ConcTexts == {<<"a", "b">>, <<"b", "a">>, <<"S">>, <<"E">>}

\* encoding.encode(text) raises when the text holds a special token.
EncodeFails(enc, text) == \E i \in 1 .. Len(text) : text[i] \in enc.special
\* The ValueError of encode names the first special token it met.
EncodeError(enc, text) ==
    LET i == CHOOSE j \in 1 .. Len(text) :
                 /\ text[j] \in enc.special
                 /\ \A k \in 1 .. j - 1 : text[k] \notin enc.special
    IN  IF text[i] = "S" THEN "disallowed special token S"
        ELSE "disallowed special token E"

\* encoding.encode(text) on text it accepts: left to right, a pair of the
\* merge table becomes one token, any other character a token of its own.
RECURSIVE Encode(_, _)
Encode(enc, text) ==
    IF text = <<>> THEN <<>>
    ELSE IF Len(text) >= 2 /\ <<text[1], text[2]>> \in enc.merges
         THEN <<SubSeq(text, 1, 2)>> \o Encode(enc, SubSeq(text, 3, Len(text)))
         ELSE <<SubSeq(text, 1, 1)>> \o Encode(enc, Tail(text))

(* ------------------------------- state -------------------------------- *)
VARIABLES
    env,        \* the value of the OPENAI_API_KEY environment variable
    ipc,        \* position of the constructor
    arg_model,  \* the constructor's model argument
    obj,        \* the fields of the object under construction / constructed
    init_err,   \* the error the constructor raised, or NoError
    instance,   \* TRUE once the constructor returned and the caller holds obj
    pc,         \* per thread: position in call_model or count_tokens
    prompt,     \* per thread: the prompt argument of call_model
    request,    \* per thread: the request passed to chat.completions.create
    nreq,       \* per thread: requests issued by the current invocation
    given,      \* per thread: the stream the remote answered with
    create_err, \* per thread: the error create raised, or ""
    response,   \* per thread: the part of the stream not yet consumed
    full_text,  \* per thread: the local full_text
    content,    \* per thread: the local content
    err,        \* per thread: the exception e bound by an except clause
    stdout,     \* per thread: what its latest call_model wrote to stdout
    text,       \* per thread: the argument of count_tokens
    result      \* per thread: how the latest invocation ended

ctor_vars == <<env, ipc, arg_model, obj, init_err, instance>>
call_vars == <<prompt, request, nreq, given, create_err, response, full_text, content, stdout>>
vars == <<env, ipc, arg_model, obj, init_err, instance, pc, prompt, request, nreq,
          given, create_err, response, full_text, content, err, stdout, text, result>>

\* An exception: its class, its message and the exception its message quotes.
Exception(type, msg, cause) == <<type, msg, cause>>
NoError == <<>>
\* ValueError("OPENAI_API_KEY environment variable not found.")
KeyNotFound ==
    Exception("ValueError", "OPENAI_API_KEY environment variable not found.", "")
\* ValueError(f"Failed to get encoding: {e}")
EncodingFailed(e) == Exception("ValueError", "Failed to get encoding: ", e)

FreshObject ==
    [api_key |-> Unset, model |-> Unset, openai_client |-> <<>>,
     encoding |-> NoEncoding]
\* OpenAI(api_key=...)
OpenAIClient(key) == <<"OpenAI", key>>

NoRequest ==
    [prompt |-> "", model |-> "", temperature |-> 0, max_tokens |-> 0,
     stream |-> FALSE]
Pending ==
    [op |-> "", kind |-> "pending", text |-> <<>>, count |-> 0,
     type |-> "", err |-> ""]
Returned(op, txt, n) ==
    [op |-> op, kind |-> "returned", text |-> txt, count |-> n,
     type |-> "", err |-> ""]
Raised(op, type, e) ==
    [op |-> op, kind |-> "raised", text |-> <<>>, count |-> 0,
     type |-> type, err |-> e]

\* One write to stdout, as a tuple: what it is, the fragment it carries, the
\* error it reports.
Line(kind, txt, e) == <<kind, txt, e>>
StatusLine == Line("status", <<>>, "")
LineKind(l) == l[1]
LineText(l) == l[2]

ThreadsIdle ==
    /\ pc = [t \in Threads |-> "idle"]
    /\ prompt = [t \in Threads |-> ""]
    /\ request = [t \in Threads |-> NoRequest]
    /\ nreq = [t \in Threads |-> 0]
    /\ given = [t \in Threads |-> <<>>]
    /\ create_err = [t \in Threads |-> ""]
    /\ response = [t \in Threads |-> <<>>]
    /\ full_text = [t \in Threads |-> <<>>]
    /\ content = [t \in Threads |-> <<>>]
    /\ err = [t \in Threads |-> ""]
    /\ stdout = [t \in Threads |-> <<>>]
    /\ text = [t \in Threads |-> <<>>]
    /\ result = [t \in Threads |-> Pending]

\* Before AICaller(model) is evaluated, in any environment.
Init ==
    /\ env \in EnvValues
    /\ ipc = "idle"
    /\ arg_model \in Models
    /\ obj = FreshObject
    /\ init_err = NoError
    /\ instance = FALSE
    /\ ThreadsIdle

\* After AICaller(model) returned, for the concurrent specification.
InitConc ==
    /\ env = "sk-key"
    /\ ipc = "done"
    /\ arg_model \in Models
    /\ obj = [api_key |-> env, model |-> arg_model,
              openai_client |-> OpenAIClient(env),
              encoding |-> GetEncodingByName(EncodingName)]
    /\ init_err = NoError
    /\ instance = TRUE
    /\ ThreadsIdle

(* ----------------------------- __init__ -------------------------------- *)
\* AICaller(model) is evaluated: a new object, __init__ entered.  A failed
\* construction may be attempted again, with any model name.
NewAICaller(m) ==
    /\ ipc \in {"idle", "failed"}
    /\ ipc' = "l19"
    /\ arg_model' = m
    /\ obj' = FreshObject
    /\ init_err' = NoError
    /\ UNCHANGED <<env, instance, pc, err, text, result, call_vars>>

\* line 19: self.api_key = os.getenv("OPENAI_API_KEY")
GetApiKey ==
    /\ ipc = "l19"
    /\ obj' = [obj EXCEPT !.api_key = env]
    /\ ipc' = "l20"
    /\ UNCHANGED <<env, arg_model, init_err, instance, pc, err, text, result, call_vars>>

\* lines 20-21: if not self.api_key: raise ValueError(...)
CheckApiKey ==
    /\ ipc = "l20"
    /\ IF IsFalsy(obj.api_key)
       THEN /\ ipc' = "failed"
            /\ init_err' = KeyNotFound
       ELSE /\ ipc' = "l23"
            /\ init_err' = init_err
    /\ UNCHANGED <<env, arg_model, obj, instance, pc, err, text, result, call_vars>>

\* lines 23-24: self.model = model; self.openai_client = OpenAI(api_key=...)
SetModelAndClient ==
    /\ ipc = "l23"
    /\ obj' = [obj EXCEPT !.model = arg_model,
                          !.openai_client = OpenAIClient(obj.api_key)]
    /\ ipc' = "l28"
    /\ UNCHANGED <<env, arg_model, init_err, instance, pc, err, text, result, call_vars>>

\* A constructor that swallows the failure of get_encoding and returns.
GetEncodingSwallow ==
    /\ ipc = "l28"
    /\ \/ obj' = [obj EXCEPT !.encoding = GetEncodingByName(EncodingName)]
       \/ obj' = obj
    /\ ipc' = "done"
    /\ instance' = TRUE
    /\ UNCHANGED <<env, arg_model, init_err, pc, err, text, result, call_vars>>

\* lines 27-30: tiktoken.get_encoding succeeds and __init__ returns, or it
\* raises and __init__ raises ValueError(f"Failed to get encoding: {e}").
GetEncoding ==
    /\ ipc = "l28"
    /\ \/ /\ obj' = [obj EXCEPT !.encoding = GetEncodingByName(EncodingName)]
          /\ ipc' = "done"
          /\ instance' = TRUE
          /\ init_err' = init_err
       \/ /\ \E e \in EncodingLoadErrors : init_err' = EncodingFailed(e)
          /\ ipc' = "failed"
          /\ UNCHANGED <<obj, instance>>
    /\ UNCHANGED <<env, arg_model, pc, err, text, result, call_vars>>

(* ----------------------------- call_model ------------------------------ *)
\* The caller invokes self.call_model(prompt) on the instance it holds.
CallModel(t, p) ==
    /\ instance
    /\ pc[t] = "idle"
    /\ pc' = [pc EXCEPT ![t] = "l44"]
    /\ prompt' = [prompt EXCEPT ![t] = p]
    /\ request' = [request EXCEPT ![t] = NoRequest]
    /\ nreq' = [nreq EXCEPT ![t] = 0]
    /\ given' = [given EXCEPT ![t] = <<>>]
    /\ create_err' = [create_err EXCEPT ![t] = ""]
    /\ stdout' = [stdout EXCEPT ![t] = <<>>]
    /\ text' = [text EXCEPT ![t] = <<>>]
    /\ result' = [result EXCEPT ![t] = Pending]
    /\ UNCHANGED <<ctor_vars, response, full_text, content, err>>

\* The request of lines 44-50.
ChatRequest(t) ==
    [prompt |-> prompt[t], model |-> obj.model, temperature |-> Temperature,
     max_tokens |-> DefaultMaxTokens, stream |-> TRUE]

\* lines 44-50: create returns the stream s.
CreateReturns(t, s) ==
    /\ pc[t] = "l44"
    /\ request' = [request EXCEPT ![t] = ChatRequest(t)]
    /\ nreq' = [nreq EXCEPT ![t] = @ + 1]
    /\ given' = [given EXCEPT ![t] = s]
    /\ response' = [response EXCEPT ![t] = s]
    /\ pc' = [pc EXCEPT ![t] = "l52"]
    /\ UNCHANGED <<ctor_vars, prompt, create_err, full_text, content, err, stdout, text,
                   result>>

\* A call_model that catches the failure of create and returns "".
CreateRaisesCaught(t, e) ==
    /\ pc[t] = "l44"
    /\ request' = [request EXCEPT ![t] = ChatRequest(t)]
    /\ nreq' = [nreq EXCEPT ![t] = @ + 1]
    /\ create_err' = [create_err EXCEPT ![t] = e]
    /\ result' = [result EXCEPT ![t] = Returned("call_model", <<>>, 0)]
    /\ pc' = [pc EXCEPT ![t] = "idle"]
    /\ UNCHANGED <<ctor_vars, prompt, given, response, full_text, content, err, stdout,
                   text>>

\* lines 44-50: create raises e; no handler is in force, call_model raises e.
CreateRaises(t, e) ==
    /\ pc[t] = "l44"
    /\ request' = [request EXCEPT ![t] = ChatRequest(t)]
    /\ nreq' = [nreq EXCEPT ![t] = @ + 1]
    /\ create_err' = [create_err EXCEPT ![t] = e]
    /\ result' = [result EXCEPT ![t] = Raised("call_model", e, e)]
    /\ pc' = [pc EXCEPT ![t] = "idle"]
    /\ UNCHANGED <<ctor_vars, prompt, given, response, full_text, content, err, stdout,
                   text>>

\* lines 52-53: full_text = ""; print("Streaming results from LLM model...")
StartStreaming(t) ==
    /\ pc[t] = "l52"
    /\ full_text' = [full_text EXCEPT ![t] = <<>>]
    /\ stdout' = [stdout EXCEPT ![t] = Append(@, StatusLine)]
    /\ pc' = [pc EXCEPT ![t] = "l55"]
    /\ UNCHANGED <<ctor_vars, prompt, request, nreq, given, create_err, response, content,
                   err, text, result>>

\* lines 55-57: the for statement takes the next event of the stream.  The
\* end of the stream leaves the loop; an error of the iterator or of
\* chunk.choices[0] enters the handler of line 65; a chunk that fails the test
\* of line 56 is skipped; otherwise content is bound.
NextChunk(t) ==
    /\ pc[t] = "l55"
    /\ IF response[t] = <<>>
       THEN /\ pc' = [pc EXCEPT ![t] = "l67"]
            /\ UNCHANGED <<response, content, err>>
       ELSE LET ev == Head(response[t]) IN
            /\ response' = [response EXCEPT ![t] = Tail(@)]
            /\ IF ErrorOf(ev) # ""
               THEN /\ err' = [err EXCEPT ![t] = ErrorOf(ev)]
                    /\ pc' = [pc EXCEPT ![t] = "l66"]
                    /\ UNCHANGED content
               ELSE IF CarriesContent(ev)
               THEN /\ content' = [content EXCEPT ![t] = ContentOf(ev)]
                    /\ pc' = [pc EXCEPT ![t] = "l58"]
                    /\ UNCHANGED err
               ELSE /\ pc' = [pc EXCEPT ![t] = "l55"]
                    /\ UNCHANGED <<content, err>>
    /\ UNCHANGED <<ctor_vars, prompt, request, nreq, given, create_err, full_text, stdout,
                   text, result>>

\* A loop that accumulates the fragment without displaying it.
PrintContentSkipped(t) ==
    /\ pc[t] = "l58"
    /\ pc' = [pc EXCEPT ![t] = "l61"]
    /\ UNCHANGED <<ctor_vars, prompt, request, nreq, given, create_err, response, full_text,
                   content, err, stdout, text, result>>

\* lines 58-60: print(content, end="", flush=True)
PrintContent(t) ==
    /\ pc[t] = "l58"
    /\ stdout' = [stdout EXCEPT ![t] = Append(@, Line("fragment", content[t], ""))]
    /\ pc' = [pc EXCEPT ![t] = "l61"]
    /\ UNCHANGED <<ctor_vars, prompt, request, nreq, given, create_err, response, full_text,
                   content, err, text, result>>

\* lines 61-64: full_text += content; time.sleep(0.01)
Accumulate(t) ==
    /\ pc[t] = "l61"
    /\ full_text' = [full_text EXCEPT ![t] = @ \o content[t]]
    /\ pc' = [pc EXCEPT ![t] = "l55"]
    /\ UNCHANGED <<ctor_vars, prompt, request, nreq, given, create_err, response, content,
                   err, stdout, text, result>>

\* A handler that lets the error out of call_model.
HandleStreamErrorReraise(t) ==
    /\ pc[t] = "l66"
    /\ result' = [result EXCEPT ![t] = Raised("call_model", err[t], err[t])]
    /\ pc' = [pc EXCEPT ![t] = "idle"]
    /\ UNCHANGED <<ctor_vars, prompt, request, nreq, given, create_err, response, full_text,
                   content, err, stdout, text>>

\* A handler that issues the request again.
HandleStreamErrorRetry(t) ==
    /\ pc[t] = "l66"
    /\ stdout' = [stdout EXCEPT ![t] = Append(@, Line("error", <<>>, err[t]))]
    /\ pc' = [pc EXCEPT ![t] = "l44"]
    /\ UNCHANGED <<ctor_vars, prompt, request, nreq, given, create_err, response, full_text,
                   content, err, text, result>>

\* lines 65-66: except Exception as e: print(f"Error during streaming: {e}")
HandleStreamError(t) ==
    /\ pc[t] = "l66"
    /\ stdout' = [stdout EXCEPT ![t] = Append(@, Line("error", <<>>, err[t]))]
    /\ pc' = [pc EXCEPT ![t] = "l67"]
    /\ UNCHANGED <<ctor_vars, prompt, request, nreq, given, create_err, response, full_text,
                   content, err, text, result>>

\* lines 67-69: print("\n"); return full_text.strip().  The frame and its
\* locals end with the return.
Finish(t) ==
    /\ pc[t] = "l67"
    /\ stdout' = [stdout EXCEPT ![t] = Append(@, Line("newline", <<>>, ""))]
    /\ result' = [result EXCEPT ![t] = Returned("call_model", Strip(full_text[t]), 0)]
    /\ pc' = [pc EXCEPT ![t] = "idle"]
    /\ response' = [response EXCEPT ![t] = <<>>]
    /\ full_text' = [full_text EXCEPT ![t] = <<>>]
    /\ content' = [content EXCEPT ![t] = <<>>]
    /\ err' = [err EXCEPT ![t] = ""]
    /\ UNCHANGED <<ctor_vars, prompt, request, nreq, given, create_err, text>>

(* ----------------------------- count_tokens ---------------------------- *)
\* The caller invokes self.count_tokens(x) on the instance it holds.
CountTokens(t, x) ==
    /\ instance
    /\ pc[t] = "idle"
    /\ text' = [text EXCEPT ![t] = x]
    /\ result' = [result EXCEPT ![t] = Pending]
    /\ pc' = [pc EXCEPT ![t] = "l82"]
    /\ prompt' = [prompt EXCEPT ![t] = ""]
    /\ request' = [request EXCEPT ![t] = NoRequest]
    /\ nreq' = [nreq EXCEPT ![t] = 0]
    /\ given' = [given EXCEPT ![t] = <<>>]
    /\ create_err' = [create_err EXCEPT ![t] = ""]
    /\ UNCHANGED <<ctor_vars, response, full_text, content, stdout, err>>

\* An encode that reads a text some other invocation left in a shared place.
EncodeTextShared(t) ==
    /\ pc[t] = "l82"
    /\ \E u \in Threads :
          IF EncodeFails(obj.encoding, text[u])
          THEN /\ err' = [err EXCEPT ![t] = EncodeError(obj.encoding, text[u])]
               /\ pc' = [pc EXCEPT ![t] = "l84"]
               /\ UNCHANGED result
          ELSE /\ result' = [result EXCEPT ![t] =
                     Returned("count_tokens", <<>>, Len(Encode(obj.encoding, text[u])))]
               /\ pc' = [pc EXCEPT ![t] = "idle"]
               /\ UNCHANGED err
    /\ UNCHANGED <<ctor_vars, call_vars, text>>

\* An encode that leaves a trace in the tokenizer: the pair it saw last
\* becomes a merge.
EncodeTextLearning(t) ==
    /\ pc[t] = "l82"
    /\ IF EncodeFails(obj.encoding, text[t])
       THEN /\ err' = [err EXCEPT ![t] = EncodeError(obj.encoding, text[t])]
            /\ pc' = [pc EXCEPT ![t] = "l84"]
            /\ UNCHANGED <<result, obj>>
       ELSE /\ result' = [result EXCEPT ![t] =
                  Returned("count_tokens", <<>>, Len(Encode(obj.encoding, text[t])))]
            /\ pc' = [pc EXCEPT ![t] = "idle"]
            /\ obj' = [obj EXCEPT !.encoding.merges =
                         @ \cup {<<text[t][i], text[t][i + 1]>> :
                                   i \in 1 .. Len(text[t]) - 1}]
            /\ UNCHANGED err
    /\ UNCHANGED <<env, ipc, arg_model, init_err, instance, call_vars, text>>

\* line 82: return len(self.encoding.encode(text)), or the exception of
\* encode enters the handler of line 83.
EncodeText(t) ==
    /\ pc[t] = "l82"
    /\ IF EncodeFails(obj.encoding, text[t])
       THEN /\ err' = [err EXCEPT ![t] = EncodeError(obj.encoding, text[t])]
            /\ pc' = [pc EXCEPT ![t] = "l84"]
            /\ UNCHANGED result
       ELSE /\ result' = [result EXCEPT ![t] =
                  Returned("count_tokens", <<>>, Len(Encode(obj.encoding, text[t])))]
            /\ pc' = [pc EXCEPT ![t] = "idle"]
            /\ UNCHANGED err
    /\ UNCHANGED <<ctor_vars, call_vars, text>>

\* A handler that answers with the length of the text.
RaiseEncodingErrorFallback(t) ==
    /\ pc[t] = "l84"
    /\ result' = [result EXCEPT ![t] = Returned("count_tokens", <<>>, Len(text[t]))]
    /\ err' = [err EXCEPT ![t] = ""]
    /\ pc' = [pc EXCEPT ![t] = "idle"]
    /\ UNCHANGED <<ctor_vars, call_vars, text>>

\* lines 83-84: except Exception as e: raise ValueError(f"Error encoding text: {e}")
RaiseEncodingError(t) ==
    /\ pc[t] = "l84"
    /\ result' = [result EXCEPT ![t] = Raised("count_tokens", "ValueError", err[t])]
    /\ err' = [err EXCEPT ![t] = ""]
    /\ pc' = [pc EXCEPT ![t] = "idle"]
    /\ UNCHANGED <<ctor_vars, call_vars, text>>

(* --------------------------- specifications --------------------------- *)
\* One caller: construction, then call_model and count_tokens in any order.
Next ==
    \/ \E m \in Models : NewAICaller(m)
    \/ GetApiKey
    \/ CheckApiKey
    \/ SetModelAndClient
    \/ GetEncoding
    \/ \E t \in SeqThreads :
          \/ \E p \in Prompts : CallModel(t, p)
          \/ \E s \in Streams : CreateReturns(t, s)
          \/ \E e \in CreateErrors : CreateRaises(t, e)
          \/ StartStreaming(t)
          \/ NextChunk(t)
          \/ PrintContent(t)
          \/ Accumulate(t)
          \/ HandleStreamError(t)
          \/ Finish(t)
          \/ \E x \in Texts : CountTokens(t, x)
          \/ EncodeText(t)
          \/ RaiseEncodingError(t)

Spec == Init /\ [][Next]_vars

\* Several threads share one constructed instance.
NextConc ==
    \E t \in Threads :
       \/ \E p \in ConcPrompts : CallModel(t, p)
       \/ \E s \in ConcStreams : CreateReturns(t, s)
       \/ \E e \in CreateErrors : CreateRaises(t, e)
       \/ StartStreaming(t)
       \/ NextChunk(t)
       \/ PrintContent(t)
       \/ Accumulate(t)
       \/ HandleStreamError(t)
       \/ Finish(t)
       \/ \E x \in ConcTexts : CountTokens(t, x)
       \/ EncodeText(t)
       \/ RaiseEncodingError(t)

SpecConc == InitConc /\ [][NextConc]_vars

(* ------------------------ what the claims speak of --------------------- *)
CallPcs == {"l44", "l52", "l55", "l58", "l61", "l66", "l67"}
LoopPcs == {"l55", "l58", "l61", "l66", "l67"}

\* An event that is an error of the stream: the iterator raises, or the
\* chunk is malformed (no choices).
IsErrorEvent(ev) == ev[1] = "raise" \/ (ev[1] = "chunk" /\ ev[2] < 1)
RaisedBy(ev) == IF ev[1] = "raise" THEN ev[6] ELSE "IndexError"

\* A chunk with a delta whose content is present and not empty.
HasText(ev) ==
    /\ ev[1] = "chunk"
    /\ ev[2] >= 1
    /\ ev[3]
    /\ ev[4]
    /\ Len(ev[5]) > 0

\* Index of the first error of stream s, Len(s) + 1 when it has none.
FirstError(s) ==
    IF \E i \in 1 .. Len(s) : IsErrorEvent(s[i])
    THEN CHOOSE i \in 1 .. Len(s) :
            /\ IsErrorEvent(s[i])
            /\ \A j \in 1 .. i - 1 : ~IsErrorEvent(s[j])
    ELSE Len(s) + 1

RECURSIVE Flatten(_)
Flatten(ss) == IF ss = <<>> THEN <<>> ELSE Head(ss) \o Flatten(Tail(ss))

\* The texts, in order, of the chunks among the first n of s that have text.
TextsOf(s, n) ==
    LET pre == SelectSeq(SubSeq(s, 1, n), HasText)
    IN  [i \in 1 .. Len(pre) |-> pre[i][5]]

\* The concatenation of the fragments that arrive before the stream ends or
\* first fails.
ArrivedText(s) == Flatten(TextsOf(s, FirstError(s) - 1))

\* x without its leading and trailing whitespace.
Trimmed(x) ==
    LET solid == {i \in 1 .. Len(x) : x[i] \notin Whitespace}
    IN  IF solid = {} THEN <<>>
        ELSE LET lo == CHOOSE i \in solid : \A j \in solid : i <= j
                 hi == CHOOSE i \in solid : \A j \in solid : j <= i
             IN  SubSeq(x, lo, hi)

\* The fragments an invocation has written to stdout, in order.
Written(out) ==
    LET fr(l) == LineKind(l) = "fragment"
        sel == SelectSeq(out, fr)
    IN  [i \in 1 .. Len(sel) |-> LineText(sel[i])]

\* How many events of its stream thread t has consumed.
Consumed(t) == Len(given[t]) - Len(response[t])

ReturnedFromCall(t) == result[t].op = "call_model" /\ result[t].kind = "returned"

(* ------------------------------- claims -------------------------------- *)
\* C1: whenever create answered with a stream, call_model returns (it does
\* not raise) exactly the trimmed concatenation, in arrival order, of the
\* texts of the chunks that have non-empty content and arrive before the
\* stream ends or first fails; a stream without such a chunk gives "".
C1_ReturnsTrimmedConcatenation ==
    \A t \in Threads :
        (pc[t] = "idle" /\ nreq[t] = 1 /\ create_err[t] = "") =>
            /\ ReturnedFromCall(t)
            /\ result[t].text = Trimmed(ArrivedText(given[t]))
            /\ (TextsOf(given[t], FirstError(given[t]) - 1) = <<>>
                   => result[t].text = <<>>)

\* C1 happens: a stream with a chunk that has no text, whose fragments keep
\* whitespace inside and lose it at an end.
C1_Witness ==
    \E t \in Threads :
        /\ pc[t] = "idle" /\ ReturnedFromCall(t)
        /\ given[t] = <<ContentChunk(<<" ">>), NoDeltaChunk, ContentChunk(<<"a">>)>>
        /\ result[t].text = <<"a">>

\* C2: an error while the stream is consumed does not leave call_model: the
\* loop stops at the failing event, the error is printed, and the call
\* returns the trimmed text of the fragments before the error; what the
\* stream held after the error is never consumed.
C2_StreamErrorGivesPartialText ==
    \A t \in Threads :
        LET s == given[t]
            k == FirstError(s)
            rest == SubSeq(s, k + 1, Len(s))
        IN  (nreq[t] = 1 /\ create_err[t] = "" /\ k <= Len(s)) =>
                /\ pc[t] \in LoopPcs => Len(response[t]) >= Len(rest)
                /\ pc[t] = "l66" => (err[t] = RaisedBy(s[k]) /\ response[t] = rest)
                /\ pc[t] = "l67" =>
                      /\ response[t] = rest
                      /\ stdout[t][Len(stdout[t])] = Line("error", <<>>, RaisedBy(s[k]))
                /\ pc[t] = "idle" =>
                      /\ ReturnedFromCall(t)
                      /\ result[t].text = Trimmed(Flatten(TextsOf(s, k - 1)))
                      /\ Len(stdout[t]) >= 2
                      /\ stdout[t][Len(stdout[t]) - 1] = Line("error", <<>>, RaisedBy(s[k]))

\* C2 happens: two fragments, then the iterator raises.
C2_Witness ==
    \E t \in Threads :
        /\ pc[t] = "idle" /\ ReturnedFromCall(t)
        /\ given[t] = <<ContentChunk(<<"a">>), ContentChunk(<<"a">>),
                        RaiseEvent("APIConnectionError")>>
        /\ result[t].text = <<"a", "a">>

\* C3: when create raises, call_model raises that same error: nothing is
\* returned, nothing is printed, no stream is read; and call_model raises in
\* no other case.
C3_CreateErrorPropagates ==
    \A t \in Threads :
        /\ create_err[t] # "" =>
              /\ pc[t] = "idle"
              /\ result[t] = Raised("call_model", create_err[t], create_err[t])
              /\ stdout[t] = <<>>
              /\ given[t] = <<>>
        /\ (result[t].op = "call_model" /\ result[t].kind = "raised")
              => create_err[t] \in CreateErrors

\* C3 happens: the request is rejected for its credential.
C3_Witness ==
    \E t \in Threads :
        /\ create_err[t] = "AuthenticationError"
        /\ result[t].kind = "raised"
        /\ request[t].stream

\* C4: with the credential absent or empty, every construction, for every
\* model name, fails with the missing-key error before a client or a
\* tokenizer exists, and nobody ever holds an instance.
C4_NoCredentialNoInstance ==
    (env = None \/ env = "") =>
        /\ ~instance
        /\ ipc \in {"idle", "l19", "l20", "failed"}
        /\ obj.openai_client = <<>>
        /\ obj.encoding = NoEncoding
        /\ ipc = "failed" => init_err = KeyNotFound
        /\ \A t \in Threads : pc[t] = "idle" /\ result[t] = Pending

\* C4 happens: the key is the empty string and the constructor has failed.
C4_Witness ==
    /\ env = ""
    /\ ipc = "failed"
    /\ arg_model = "gpt-3.5-turbo"

\* C5: the caller holds an instance only when __init__ ran to its end, and
\* then the credential, model name, client and tokenizer are all set; a
\* failed construction hands out nothing, so no call_model or count_tokens
\* ever runs on an object without tokenizer or client.
C5_ConstructionAllOrNothing ==
    /\ instance =>
          /\ ipc = "done"
          /\ obj.api_key \notin {Unset, None, ""}
          /\ obj.model = arg_model
          /\ obj.openai_client = OpenAIClient(obj.api_key)
          /\ obj.encoding = GetEncodingByName(EncodingName)
    /\ ipc = "failed" =>
          /\ ~instance
          /\ init_err \in {KeyNotFound} \cup {EncodingFailed(e) : e \in EncodingLoadErrors}
    /\ \A t \in Threads :
          (pc[t] # "idle" \/ result[t] # Pending) =>
              /\ instance
              /\ obj.openai_client # <<>>
              /\ obj.encoding # NoEncoding

\* C5 happens: the tokenizer could not be loaded after the client was made;
\* the half-built object is not handed out.
C5_Witness ==
    /\ ipc = "failed"
    /\ init_err = EncodingFailed("unknown encoding")
    /\ obj.openai_client # <<>>
    /\ ~instance

\* C6: an invocation of call_model issues one request and no second one,
\* also not after a stream error; its accumulator starts empty and holds, at
\* every step, only texts of the events it consumed from its own stream; the
\* text it returns is built from its own stream alone, whatever the other
\* invocations on the instance do meanwhile or did before.
C6_OnlyOwnRequest ==
    \A t \in Threads :
        /\ nreq[t] <= 1
        /\ pc[t] \in CallPcs \ {"l44"} => nreq[t] = 1
        /\ pc[t] = "l55" =>
              (Consumed(t) = 0 /\ Len(stdout[t]) = 1 => full_text[t] = <<>>)
        /\ pc[t] \in {"l55", "l66", "l67"} =>
              full_text[t] = Flatten(TextsOf(given[t], Consumed(t)))
        /\ pc[t] \in {"l58", "l61"} =>
              Flatten(TextsOf(given[t], Consumed(t))) \in
                  {full_text[t] \o content[t], full_text[t]}
        /\ (pc[t] = "idle" /\ ReturnedFromCall(t)) =>
              /\ nreq[t] = 1
              /\ request[t].prompt = prompt[t]
              /\ result[t].text = Trimmed(ArrivedText(given[t]))

\* C6 happens: one invocation has returned the text of its stream while an
\* invocation of another thread, on another stream, is in its loop.
C6_Witness ==
    \E t, u \in Threads :
        /\ t # u
        /\ pc[t] = "idle" /\ ReturnedFromCall(t)
        /\ result[t].text = <<"b">>
        /\ pc[u] = "l61"
        /\ full_text[u] = <<"a">>

\* C7: count_tokens on a text the tokenizer refuses returns no count: it
\* raises ValueError carrying the tokenizer's error; on any other text it
\* returns the number of tokens the tokenizer makes of that text.
C7_CountOrEncodingError ==
    \A t \in Threads :
        result[t].op = "count_tokens" =>
            IF EncodeFails(obj.encoding, text[t])
            THEN /\ result[t].kind = "raised"
                 /\ result[t].type = "ValueError"
                 /\ result[t].err = EncodeError(obj.encoding, text[t])
                 /\ result[t].count = 0
            ELSE /\ result[t].kind = "returned"
                 /\ result[t].count = Len(Encode(obj.encoding, text[t]))
                 /\ (text[t] = <<>> => result[t].count = 0)

\* C7 happens: a text with a special token after an ordinary character.
C7_Witness ==
    \E t \in Threads :
        /\ result[t].op = "count_tokens"
        /\ text[t] = <<"a", "E">>
        /\ result[t].kind = "raised"
        /\ result[t].err = "disallowed special token E"

\* C8: once the instance is handed out, no step of call_model or
\* count_tokens changes its credential, model name, client or tokenizer;
\* and every count returned, after whatever invocations, is the count the
\* freshly constructed tokenizer gives for that text.
C8_InstanceIsFrozen ==
    /\ [][instance => (instance' /\ obj' = obj)]_vars
    /\ [](\A t \in Threads :
             (result[t].op = "count_tokens" /\ result[t].kind = "returned") =>
                 result[t].count = Len(Encode(GetEncodingByName(EncodingName), text[t])))

\* C8 happens: a count returned on an instance that served a call_model
\* before.
C8_Witness ==
    \E t \in Threads :
        /\ result[t].op = "count_tokens" /\ result[t].kind = "returned"
        /\ text[t] = <<"a", "b">>
        /\ result[t].count = 1
        /\ Len(stdout[t]) >= 3

\* C9: with several threads inside count_tokens at once, each thread's
\* pending error, raised error or returned count is the one of its own text.
C9_NoCrossTalk ==
    \A t \in Threads :
        /\ pc[t] = "l84" =>
              /\ EncodeFails(GetEncodingByName(EncodingName), text[t])
              /\ err[t] = EncodeError(GetEncodingByName(EncodingName), text[t])
        /\ (pc[t] = "idle" /\ result[t].op = "count_tokens") =>
              \/ /\ result[t].kind = "returned"
                 /\ ~EncodeFails(GetEncodingByName(EncodingName), text[t])
                 /\ result[t].count = Len(Encode(GetEncodingByName(EncodingName), text[t]))
              \/ /\ result[t].kind = "raised"
                 /\ EncodeFails(GetEncodingByName(EncodingName), text[t])
                 /\ result[t].err = EncodeError(GetEncodingByName(EncodingName), text[t])

\* C9 happens: a thread holds the error of its own text while another,
\* which entered count_tokens with another text, has its own count.
C9_Witness ==
    \E t, u \in Threads :
        /\ t # u
        /\ pc[t] = "l84" /\ text[t] = <<"S">>
        /\ result[u].op = "count_tokens" /\ result[u].kind = "returned"
        /\ text[u] = <<"b", "a">> /\ result[u].count = 2

\* Order of an invocation's writes: the status line is first and is there
\* only after create answered, nothing but fragments stands between it and
\* the error report or the final newline, and the loop runs with the status
\* line written.
C10_Order(t) ==
    /\ (stdout[t] # <<>> /\ (pc[t] \in CallPcs \/ result[t].op = "call_model")) =>
          (nreq[t] = 1 /\ create_err[t] = "")
    /\ stdout[t] # <<>> =>
          /\ stdout[t][1] = StatusLine
          /\ \A i \in 2 .. Len(stdout[t]) : LineKind(stdout[t][i]) # "status"
          /\ \A i, j \in 1 .. Len(stdout[t]) :
                (i < j /\ LineKind(stdout[t][i]) \in {"error", "newline"})
                    => LineKind(stdout[t][j]) # "fragment"
    /\ pc[t] \in {"l44", "l52"} => stdout[t] = <<>>
    /\ pc[t] \in LoopPcs => stdout[t] # <<>>
    /\ pc[t] \in {"l55", "l61", "l66", "l67"} =>
          Written(stdout[t]) = TextsOf(given[t], Consumed(t))
    /\ pc[t] = "l58" =>
          Written(stdout[t]) \o <<content[t]>> = TextsOf(given[t], Consumed(t))
    /\ (pc[t] = "idle" /\ ReturnedFromCall(t)) =>
          result[t].text = Trimmed(Flatten(Written(stdout[t])))

\* C10 as stated: the writes are in order, and at every point of the loop
\* the accumulator is the concatenation of the fragments written so far.
C10_AccumulatorIsWrittenEverywhere ==
    \A t \in Threads :
        /\ C10_Order(t)
        /\ pc[t] \in LoopPcs => full_text[t] = Flatten(Written(stdout[t]))

\* C10 amended: the writes are in order; the accumulator is the
\* concatenation of the fragments written so far whenever the next event is
\* about to be taken, a fragment is about to be written, and after the loop;
\* between the write of line 58 and the append of line 61 it lacks exactly
\* the fragment just written.
C10_AccumulatorFollowsWritten ==
    \A t \in Threads :
        /\ C10_Order(t)
        /\ pc[t] \in LoopPcs \ {"l61"} => full_text[t] = Flatten(Written(stdout[t]))
        /\ pc[t] = "l61" =>
              /\ full_text[t] \o content[t] = Flatten(Written(stdout[t]))
              /\ content[t] # <<>>

\* C10 happens: a second fragment is written and not yet appended.
C10_Witness ==
    \E t \in Threads :
        /\ pc[t] = "l61"
        /\ full_text[t] = <<" ">>
        /\ Written(stdout[t]) = << <<" ">>, <<"a">> >>

=============================================================================
